---- MODULE Spec2Model ----
(***************************************************************************)
(* Model of the range filter of the histogram facet (FacetHistogramFilter) *)
(* of stories-facets: the committed selection in bar and pixel space, the  *)
(* two drag handles, pagination, the UI refresh and the change             *)
(* notification; and of a bar of the histogram (FacetHistogramBar): the    *)
(* heights of its layers, its metadata and info, and its callback slots.   *)
(*                                                                         *)
(* The Histogram the filter is linked to (bars, barWidth, totalWidth and   *)
(* the two range conversions) is not part of the sources at hand; it is    *)
(* modelled from its contract in the specification.                        *)
(***************************************************************************)
EXTENDS Integers, Sequences, FiniteSets, TLC

VARIABLES
    histogram,       \* this._histogram: [numBars, barWidth, bars]
    displayFn,       \* this._spec.displayFn, null when no formatter is configured
    pixelRange,      \* this._pixelRange
    barRange,        \* this._barRange
    maxBarRange,     \* this._maxBarRange
    draggingLeft,    \* this._draggingLeft
    draggingLeftX,   \* this._draggingLeftX
    canDragLeft,     \* this._canDragLeft
    draggingRight,   \* this._draggingRight
    draggingRightX,  \* this._draggingRightX
    canDragRight,    \* this._canDragRight
    onFilterChanged, \* this._onFilterChanged
    ui,              \* what updateUI last wrote to the DOM and the histogram
    uiUpdates,       \* the arguments of the updateUI calls of the last handler
    notified,        \* the onFilterChanged invocations of the last handler
    calls,           \* the setFilter* calls of the last handler, outermost first
    op,              \* the entry point last run: a handler, an accessor or a method
    pointerDown,     \* a pointer-down on a handle has had no pointer-up or -leave yet
    bar,             \* a FacetHistogramBar: its fields and the heights of its layers
    invoked          \* the handlers the last event of the bar invoked

vars == <<histogram, displayFn, pixelRange, barRange, maxBarRange,
          draggingLeft, draggingLeftX, canDragLeft,
          draggingRight, draggingRightX, canDragRight,
          onFilterChanged, ui, uiUpdates, notified, calls, op,
          pointerDown, bar, invoked>>

\* what the constructor of the filter sets and nothing writes afterwards
constructed == <<histogram, displayFn, maxBarRange>>

barVars == <<bar, invoked>>

dragVars == <<draggingLeft, draggingLeftX, canDragLeft,
              draggingRight, draggingRightX, canDragRight>>

committedVars == <<pixelRange, barRange>>

\* the fields of the filter, its UI and the history of its last handler
filterVars == <<constructed, committedVars, dragVars, onFilterChanged, ui,
                uiUpdates, notified, calls, pointerDown>>

(***************************************************************************)
(* Bounds                                                                  *)
(***************************************************************************)
NumBars == 3
BarWidth == 2
MaxHeight == 2

(***************************************************************************)
(* Helpers                                                                 *)
(***************************************************************************)
Max(a, b) == IF a >= b THEN a ELSE b
Min(a, b) == IF a <= b THEN a ELSE b

\* Math.round(n / d) for d > 0: the nearest integer, halves towards +infinity
Round(n, d) == (2 * n + d) \div (2 * d)

Range(f, t) == [from |-> f, to |-> t]

null == "null"
undefined == "undefined"

\* a number or null: <<n>> is the number n, <<>> is null
Number(n) == <<n>>
NoNumber == <<>>
Functions == {"fn1", "fn2"}
NonFunctions == {"undefined", "object"}

(***************************************************************************)
(* The Histogram collaborator                                              *)
(***************************************************************************)
barWidth == histogram.barWidth
barsLength == Len(histogram.bars)
totalWidth == histogram.numBars * histogram.barWidth

ClampIndex(i) == Min(barsLength - 1, Max(0, i))

pixelRangeToBarRange(p) ==
    Range(ClampIndex(Round(p.from, barWidth)),
          ClampIndex(Round(p.to - barWidth, barWidth)))

barRangeToPixelRange(b) ==
    Range(b.from * barWidth, b.to * barWidth + barWidth)

(***************************************************************************)
(* _initializeDragging: the two range calculations                         *)
(***************************************************************************)
\* variant: the moved bound is clamped but the other bound is never pushed
calculateFromNoPush(range, offset, bw, tw) ==
    Range(Max(0, range.from + offset), range.to)

\* variant: the moved bound is not clamped to 0
calculateFromUnclamped(range, offset, bw, tw) ==
    LET from == range.from + offset
    IN  IF from > range.to - bw
        THEN IF from + bw < tw
             THEN Range(from, from + bw)
             ELSE Range(tw - bw, tw)
        ELSE Range(from, range.to)

calculateFrom(range, offset, bw, tw) ==
    LET from == Max(0, range.from + offset)
    IN  IF from > range.to - bw
        THEN IF from + bw < tw
             THEN Range(from, from + bw)
             ELSE Range(tw - bw, tw)
        ELSE Range(from, range.to)

\* variant: the other bound is always pulled along, never snapped to [0, bw]
calculateToNoSnap(range, offset, bw, tw) ==
    LET to == Min(tw, range.to + offset)
    IN  IF to < range.from + bw
        THEN Range(to - bw, to)
        ELSE Range(range.from, to)

calculateTo(range, offset, bw, tw) ==
    LET to == Min(tw, range.to + offset)
    IN  IF to < range.from + bw
        THEN IF to - bw > 0
             THEN Range(to - bw, to)
             ELSE Range(0, bw)
        ELSE Range(range.from, to)

\* variant: the left handle moves `to` and the right handle moves `from`
DragRangeSwapped(l, r, x) ==
    LET r0 == Range(pixelRange.from, pixelRange.to)
        r1 == IF l THEN calculateTo(r0, x - draggingLeftX, barWidth, totalWidth)
                   ELSE r0
    IN  IF r THEN calculateFrom(r1, x - draggingRightX, barWidth, totalWidth)
             ELSE r1

\* the range a handler computes from the committed pixel range for the
\* handles selected by l (left) and r (right) at client position x
DragRange(l, r, x) ==
    LET r0 == Range(pixelRange.from, pixelRange.to)
        r1 == IF l THEN calculateFrom(r0, x - draggingLeftX, barWidth, totalWidth)
                   ELSE r0
    IN  IF r THEN calculateTo(r1, x - draggingRightX, barWidth, totalWidth)
             ELSE r1

(***************************************************************************)
(* Metadata entries are records; a property an entry does not define is a  *)
(* field the record does not have.                                         *)
(***************************************************************************)
\* property k of entry e as the + operator writes it into a string
Str(e, k) ==
    IF k \notin DOMAIN e THEN "undefined"
    ELSE IF k \in {"binStart", "binEnd"} THEN ToString(e[k])
    ELSE e[k]

\* the text the configured formatter returns for property k of entry e
Display(e, k) == displayFn \o "(" \o Str(e, k) \o ")"

(***************************************************************************)
(* updateUI: the text of the range label, the highlight, the handle region *)
(* and the three class toggles                                             *)
(***************************************************************************)
\* the text written into the range label for bar range b; the code reads
\* bars[b.from] and bars[b.to], so b lies inside the bars
RangeLabel(b) ==
    LET bars == histogram.bars
        leftBarMetadata == bars[b.from + 1].metadata
        rightBarMetadata == bars[b.to + 1].metadata
        firstMetadata == leftBarMetadata[1]
        lastMetadata == rightBarMetadata[Len(rightBarMetadata)]
        fromLabel == IF displayFn # null
                     THEN Display(firstMetadata, "binStart")
                     ELSE Str(firstMetadata, "label")
        toLabel == IF displayFn # null
                   THEN Display(lastMetadata, "binEnd")
                   ELSE Str(lastMetadata, "toLabel")
    IN  fromLabel \o " - " \o toLabel

updateUI(b, p) ==
    [drawn            |-> TRUE,
     label            |-> RangeLabel(b),
     highlightRange   |-> b,
     left             |-> p.from,
     width            |-> p.to - p.from,
     labelHidden      |-> (b.from = maxBarRange.from /\ b.to = maxBarRange.to),
     pageLeftDisabled |-> (b.from = maxBarRange.from),
     pageRightDisabled |-> (b.to = maxBarRange.to)]

UICall(b, p) == [barRange |-> b, pixelRange |-> p]

(***************************************************************************)
(* setFilterBarRange / setFilterPixelRange                                 *)
(***************************************************************************)
\* variant: the handler is always told the change came from user input
NotifyAsUserInput(handler, b, fromUserInput) ==
    IF handler # null
    THEN <<[handler |-> handler, barRange |-> b, fromUserInput |-> TRUE]>>
    ELSE <<>>

Notify(handler, b, fromUserInput) ==
    IF handler # null
    THEN <<[handler |-> handler, barRange |-> b, fromUserInput |-> fromUserInput]>>
    ELSE <<>>

Call(fn, fromUserInput) == [fn |-> fn, fromUserInput |-> fromUserInput]

\* variant: the pixel range is derived before the new bar range is stored
setFilterBarRangeBodyStale(b, fromUserInput, outer) ==
    LET p == barRangeToPixelRange(barRange)
    IN  /\ pixelRange' = p
        /\ barRange' = b
        /\ ui' = updateUI(b, p)
        /\ uiUpdates' = <<UICall(b, p)>>
        /\ notified' = Notify(onFilterChanged, b, fromUserInput)
        /\ calls' = Append(outer, Call("setFilterBarRange", fromUserInput))

\* the body of setFilterBarRange; outer is the calls that led to it
setFilterBarRangeBody(b, fromUserInput, outer) ==
    LET p == barRangeToPixelRange(b)
    IN  /\ pixelRange' = p
        /\ barRange' = b
        /\ ui' = updateUI(b, p)
        /\ uiUpdates' = <<UICall(b, p)>>
        /\ notified' = Notify(onFilterChanged, b, fromUserInput)
        /\ calls' = Append(outer, Call("setFilterBarRange", fromUserInput))

setFilterBarRange(b, fromUserInput) ==
    setFilterBarRangeBody(b, fromUserInput, <<>>)

\* variant: the pixel range passed in is stored as it is
setFilterPixelRangeAsIs(p, fromUserInput) ==
    LET b == pixelRangeToBarRange(p)
    IN  /\ pixelRange' = p
        /\ barRange' = b
        /\ ui' = updateUI(b, p)
        /\ uiUpdates' = <<UICall(b, p)>>
        /\ notified' = Notify(onFilterChanged, b, fromUserInput)
        /\ calls' = <<Call("setFilterPixelRange", fromUserInput),
                      Call("setFilterBarRange", fromUserInput)>>

setFilterPixelRange(p, fromUserInput) ==
    setFilterBarRangeBody(pixelRangeToBarRange(p), fromUserInput,
                          <<Call("setFilterPixelRange", fromUserInput)>>)

\* a handler that neither commits, refreshes the UI nor notifies
Quiet ==
    /\ uiUpdates' = <<>>
    /\ notified' = <<>>
    /\ calls' = <<>>

(***************************************************************************)
(* Inputs                                                                  *)
(***************************************************************************)
\* client coordinates of pointer events; their differences are the drag deltas:
\* zero, a bar and a half, and more than totalWidth, in both directions
ClientXs == {0, 3, totalWidth + 1}

BarRanges == {Range(f, t) : f \in 0..(barsLength - 1), t \in 0..(barsLength - 1)}
ValidBarRanges == {b \in BarRanges : b.from <= b.to}

\* pixel coordinates a caller passes: the edges and the middles of the bars
PixelCoords == {k * barWidth : k \in 0..barsLength}
               \cup {k * barWidth + barWidth \div 2 : k \in 0..(barsLength - 1)}

\* the pixel ranges a caller passes are at least one bar wide
PixelRanges == {p \in {Range(f, t) : f \in PixelCoords, t \in PixelCoords} :
                    p.to - p.from >= barWidth}

\* the ranges a caller passes to updateUI directly: the last bar, with its own
\* pixels and with the pixels of the first bar
UIBarRanges == {Range(barsLength - 1, barsLength - 1)}
UIPixelRanges == {Range(0, barWidth), Range(totalWidth - barWidth, totalWidth)}

(***************************************************************************)
(* Init: the state the constructor leaves                                  *)
(***************************************************************************)
\* bar i of a histogram whose bins are ten units wide and fully labelled
LabelledBar(i) ==
    [metadata |-> <<[label |-> "L" \o ToString(i), toLabel |-> "T" \o ToString(i),
                     binStart |-> 10 * i, binEnd |-> 10 * i + 10, count |-> 1]>>]

Histogram(n, w) ==
    [numBars |-> n, barWidth |-> w, bars |-> [i \in 1..n |-> LabelledBar(i - 1)]]

\* new FacetHistogramFilter(svgContainer, histogram, spec)
FacetHistogramFilter(h, fn) ==
    /\ histogram = h
    /\ displayFn = fn
    /\ draggingLeft = FALSE
    /\ draggingLeftX = 0
    /\ canDragLeft = FALSE
    /\ draggingRight = FALSE
    /\ draggingRightX = 0
    /\ canDragRight = FALSE
    /\ pixelRange = Range(0, 0)
    /\ barRange = Range(0, 0)
    /\ maxBarRange = Range(0, barsLength - 1)
    /\ onFilterChanged = null
    /\ ui = [drawn |-> FALSE, label |-> "", highlightRange |-> Range(0, 0),
             left |-> 0, width |-> 0, labelHidden |-> FALSE,
             pageLeftDisabled |-> FALSE, pageRightDisabled |-> FALSE]
    /\ uiUpdates = <<>>
    /\ notified = <<>>
    /\ calls = <<>>
    /\ op = "constructor"
    /\ pointerDown = FALSE

\* new FacetHistogramBar(container, x, width, height, maxHeight)
FacetHistogramBar(height) ==
    /\ bar = [metadata |-> <<>>,
              selectedHeight |-> NoNumber,
              height |-> height,
              elementHeight |-> height,
              backElementHeight |-> height,
              onMouseEnterHandler |-> null,
              onMouseLeaveHandler |-> null,
              onClickHandler |-> null]
    /\ invoked = <<>>

Init ==
    /\ FacetHistogramFilter(Histogram(NumBars, BarWidth), null)
    /\ FacetHistogramBar(0)

(***************************************************************************)
(* Actions                                                                 *)
(***************************************************************************)
\* onFilterChanged setter
SetOnFilterChanged(value) ==
    /\ op' = "onFilterChanged="
    /\ UNCHANGED pointerDown
    /\ onFilterChanged' = IF value \in Functions THEN value ELSE null
    /\ Quiet
    /\ UNCHANGED <<constructed, barVars, committedVars, dragVars, ui>>

\* barRange setter
SetBarRange(value) ==
    /\ op' = "barRange="
    /\ UNCHANGED pointerDown
    /\ setFilterBarRange(value, FALSE)
    /\ UNCHANGED <<constructed, barVars, dragVars, onFilterChanged>>

\* pixelRange setter
SetPixelRange(value) ==
    /\ op' = "pixelRange="
    /\ UNCHANGED pointerDown
    /\ setFilterPixelRange(value, FALSE)
    /\ UNCHANGED <<constructed, barVars, dragVars, onFilterChanged>>

\* a direct call of setFilterBarRange
CallSetFilterBarRange(b, fromUserInput) ==
    /\ op' = "setFilterBarRange"
    /\ UNCHANGED pointerDown
    /\ setFilterBarRange(b, fromUserInput)
    /\ UNCHANGED <<constructed, barVars, dragVars, onFilterChanged>>

\* a direct call of setFilterPixelRange
CallSetFilterPixelRange(p, fromUserInput) ==
    /\ op' = "setFilterPixelRange"
    /\ UNCHANGED pointerDown
    /\ setFilterPixelRange(p, fromUserInput)
    /\ UNCHANGED <<constructed, barVars, dragVars, onFilterChanged>>

\* a direct call of updateUI: it draws the ranges it is given, which need not
\* be the committed ones nor agree with each other
CallUpdateUI(b, p) ==
    /\ op' = "updateUI"
    /\ UNCHANGED pointerDown
    /\ ui' = updateUI(b, p)
    /\ uiUpdates' = <<UICall(b, p)>>
    /\ notified' = <<>>
    /\ calls' = <<>>
    /\ UNCHANGED <<constructed, barVars, committedVars, dragVars, onFilterChanged>>

\* mousedown on the left handle
LeftHandleMouseDown(clientX) ==
    /\ op' = "leftHandle.mousedown"
    /\ canDragLeft' = TRUE
    /\ draggingLeft' = FALSE
    /\ draggingLeftX' = clientX
    /\ Quiet
    /\ UNCHANGED <<constructed, barVars, committedVars, onFilterChanged, ui,
                   draggingRight, draggingRightX, canDragRight>>

\* mousedown on the right handle
RightHandleMouseDown(clientX) ==
    /\ op' = "rightHandle.mousedown"
    /\ canDragRight' = TRUE
    /\ draggingRight' = FALSE
    /\ draggingRightX' = clientX
    /\ Quiet
    /\ UNCHANGED <<constructed, barVars, committedVars, onFilterChanged, ui,
                   draggingLeft, draggingLeftX, canDragLeft>>

\* variant: every move of an armed handle commits the range it computes
MouseMoveCommitting(clientX) ==
    /\ op' = "mousemove"
    /\ UNCHANGED pointerDown
    /\ IF canDragLeft \/ canDragRight
       THEN /\ draggingLeft' = (canDragLeft \/ draggingLeft)
            /\ draggingRight' = (canDragRight \/ draggingRight)
            /\ setFilterPixelRange(DragRange(canDragLeft, canDragRight, clientX), TRUE)
       ELSE /\ Quiet
            /\ UNCHANGED <<draggingLeft, draggingRight, ui, committedVars>>
    /\ UNCHANGED <<constructed, barVars, onFilterChanged,
                   draggingLeftX, draggingRightX, canDragLeft, canDragRight>>

\* variant: a move of an armed handle writes the range it computes to _pixelRange
MouseMoveStoring(clientX) ==
    /\ op' = "mousemove"
    /\ UNCHANGED pointerDown
    /\ IF canDragLeft \/ canDragRight
       THEN LET range == DragRange(canDragLeft, canDragRight, clientX)
                b == pixelRangeToBarRange(range)
            IN  /\ draggingLeft' = (canDragLeft \/ draggingLeft)
                /\ draggingRight' = (canDragRight \/ draggingRight)
                /\ pixelRange' = range
                /\ ui' = updateUI(b, range)
                /\ uiUpdates' = <<UICall(b, range)>>
                /\ notified' = <<>>
                /\ calls' = <<>>
       ELSE /\ Quiet
            /\ UNCHANGED <<draggingLeft, draggingRight, ui, pixelRange>>
    /\ UNCHANGED <<constructed, barVars, barRange, onFilterChanged,
                   draggingLeftX, draggingRightX, canDragLeft, canDragRight>>

\* variant: a move with either handle armed marks both handles as dragging
MouseMoveDraggingBoth(clientX) ==
    /\ op' = "mousemove"
    /\ UNCHANGED pointerDown
    /\ IF canDragLeft \/ canDragRight
       THEN LET range == DragRange(canDragLeft, canDragRight, clientX)
                b == pixelRangeToBarRange(range)
            IN  /\ draggingLeft' = TRUE
                /\ draggingRight' = TRUE
                /\ ui' = updateUI(b, range)
                /\ uiUpdates' = <<UICall(b, range)>>
                /\ notified' = <<>>
                /\ calls' = <<>>
       ELSE /\ Quiet
            /\ UNCHANGED <<draggingLeft, draggingRight, ui>>
    /\ UNCHANGED <<constructed, barVars, committedVars, onFilterChanged,
                   draggingLeftX, draggingRightX, canDragLeft, canDragRight>>

\* mousemove on the element
MouseMove(clientX) ==
    /\ op' = "mousemove"
    /\ UNCHANGED pointerDown
    /\ IF canDragLeft \/ canDragRight
       THEN LET range == DragRange(canDragLeft, canDragRight, clientX)
                b == pixelRangeToBarRange(range)
            IN  /\ draggingLeft' = (canDragLeft \/ draggingLeft)
                /\ draggingRight' = (canDragRight \/ draggingRight)
                /\ ui' = updateUI(b, range)
                /\ uiUpdates' = <<UICall(b, range)>>
                /\ notified' = <<>>
                /\ calls' = <<>>
       ELSE /\ Quiet
            /\ UNCHANGED <<draggingLeft, draggingRight, ui>>
    /\ UNCHANGED <<constructed, barVars, committedVars, onFilterChanged,
                   draggingLeftX, draggingRightX, canDragLeft, canDragRight>>

\* the handler of mouseup and mouseleave on the element
endDragging(clientX) ==
    /\ op' = "endDragging"
    /\ IF draggingLeft \/ draggingRight
       THEN /\ canDragLeft' = (canDragLeft /\ ~draggingLeft)
            /\ canDragRight' = (canDragRight /\ ~draggingRight)
            /\ draggingLeft' = FALSE
            /\ draggingRight' = FALSE
            /\ setFilterPixelRange(DragRange(draggingLeft, draggingRight, clientX), TRUE)
       ELSE /\ Quiet
            /\ UNCHANGED <<committedVars, ui, canDragLeft, canDragRight,
                           draggingLeft, draggingRight>>
    /\ UNCHANGED <<constructed, barVars, onFilterChanged,
                   draggingLeftX, draggingRightX>>

MouseUp(clientX) == endDragging(clientX)

\* variant: a pointer-leave ends the drag and redraws the committed range
MouseLeaveAborting(clientX) ==
    /\ op' = "endDragging"
    /\ IF draggingLeft \/ draggingRight
       THEN /\ canDragLeft' = (canDragLeft /\ ~draggingLeft)
            /\ canDragRight' = (canDragRight /\ ~draggingRight)
            /\ draggingLeft' = FALSE
            /\ draggingRight' = FALSE
            /\ ui' = updateUI(barRange, pixelRange)
            /\ uiUpdates' = <<UICall(barRange, pixelRange)>>
            /\ notified' = <<>>
            /\ calls' = <<>>
            /\ UNCHANGED committedVars
       ELSE /\ Quiet
            /\ UNCHANGED <<committedVars, ui, canDragLeft, canDragRight,
                           draggingLeft, draggingRight>>
    /\ UNCHANGED <<constructed, barVars, onFilterChanged,
                   draggingLeftX, draggingRightX>>

MouseLeave(clientX) == endDragging(clientX)

\* variant: page-left commits even when the range is at the left boundary
PageLeftClickUnguarded ==
    LET from == barRange.from
        to == barRange.to
        maxFrom == maxBarRange.from
        offset == IF from - (to - from + 1) < maxFrom
                  THEN from - maxFrom
                  ELSE to - from + 1
    IN  /\ op' = "pageLeft.click"
        /\ UNCHANGED pointerDown
        /\ setFilterBarRange(Range(from - offset, to - offset), TRUE)
        /\ UNCHANGED <<constructed, barVars, dragVars, onFilterChanged>>

\* click on the page-left control
PageLeftClick ==
    LET from == barRange.from
        to == barRange.to
        maxFrom == maxBarRange.from
        offset == IF from - (to - from + 1) < maxFrom
                  THEN from - maxFrom
                  ELSE to - from + 1
    IN  /\ op' = "pageLeft.click"
        /\ UNCHANGED pointerDown
        /\ IF from > maxFrom
           THEN setFilterBarRange(Range(from - offset, to - offset), TRUE)
           ELSE Quiet /\ UNCHANGED <<committedVars, ui>>
        /\ UNCHANGED <<constructed, barVars, dragVars, onFilterChanged>>

\* variant: page-right always moves the window to the right boundary
PageRightClickToEnd ==
    LET from == barRange.from
        to == barRange.to
        maxTo == maxBarRange.to
        offset == maxTo - to
    IN  /\ op' = "pageRight.click"
        /\ UNCHANGED pointerDown
        /\ IF to < maxTo
           THEN setFilterBarRange(Range(from + offset, to + offset), TRUE)
           ELSE Quiet /\ UNCHANGED <<committedVars, ui>>
        /\ UNCHANGED <<constructed, barVars, dragVars, onFilterChanged>>

\* click on the page-right control
PageRightClick ==
    LET from == barRange.from
        to == barRange.to
        maxTo == maxBarRange.to
        offset == IF to + (to - from + 1) > maxTo
                  THEN maxTo - to
                  ELSE to - from + 1
    IN  /\ op' = "pageRight.click"
        /\ UNCHANGED pointerDown
        /\ IF to < maxTo
           THEN setFilterBarRange(Range(from + offset, to + offset), TRUE)
           ELSE Quiet /\ UNCHANGED <<committedVars, ui>>
        /\ UNCHANGED <<constructed, barVars, dragVars, onFilterChanged>>

Next ==
    \/ \E value \in {"fn1"} \cup NonFunctions : SetOnFilterChanged(value)
    \/ \E value \in ValidBarRanges : SetBarRange(value)
    \/ \E value \in PixelRanges : SetPixelRange(value)
    \/ \E b \in ValidBarRanges, f \in BOOLEAN : CallSetFilterBarRange(b, f)
    \/ \E p \in PixelRanges, f \in BOOLEAN : CallSetFilterPixelRange(p, f)
    \/ \E b \in UIBarRanges, p \in UIPixelRanges : CallUpdateUI(b, p)
    \/ \E x \in ClientXs : LeftHandleMouseDown(x) /\ UNCHANGED pointerDown
    \/ \E x \in ClientXs : RightHandleMouseDown(x) /\ UNCHANGED pointerDown
    \/ \E x \in ClientXs : MouseMove(x)
    \/ \E x \in ClientXs : MouseUp(x) /\ UNCHANGED pointerDown
    \/ \E x \in ClientXs : MouseLeave(x) /\ UNCHANGED pointerDown
    \/ PageLeftClick
    \/ PageRightClick

Spec == Init /\ [][Next]_vars

(***************************************************************************)
(* A single pointer: a pointer-down on a handle happens only when the last *)
(* pointer-down has been followed by a pointer-up or a pointer-leave.      *)
(***************************************************************************)
SinglePointerNext ==
    \/ \E value \in {"fn1"} \cup NonFunctions : SetOnFilterChanged(value)
    \/ \E value \in ValidBarRanges : SetBarRange(value)
    \/ \E b \in UIBarRanges, p \in UIPixelRanges : CallUpdateUI(b, p)
    \/ \E x \in ClientXs :
          ~pointerDown /\ LeftHandleMouseDown(x) /\ pointerDown' = TRUE
    \/ \E x \in ClientXs :
          ~pointerDown /\ RightHandleMouseDown(x) /\ pointerDown' = TRUE
    \/ \E x \in ClientXs : MouseMove(x)
    \/ \E x \in ClientXs : MouseUp(x) /\ pointerDown' = FALSE
    \/ \E x \in ClientXs : MouseLeave(x) /\ pointerDown' = FALSE
    \/ PageLeftClick
    \/ PageRightClick

SinglePointerSpec == Init /\ [][SinglePointerNext]_vars

(***************************************************************************)
(* The worked example of the left handle dragged across the whole          *)
(* histogram: ten bars of twenty pixels, one pointer, the selection set to *)
(* all bars through the barRange accessor.                                 *)
(***************************************************************************)
ScenarioInit ==
    /\ FacetHistogramFilter(Histogram(10, 20), null)
    /\ FacetHistogramBar(0)

\* client positions: the anchor, one short of totalWidth - barWidth, and two
\* past it
ScenarioXs == {0, 170, 190, 250}

ScenarioNext ==
    \/ SetBarRange(maxBarRange)
    \/ \E x \in ScenarioXs :
          ~pointerDown /\ LeftHandleMouseDown(x) /\ pointerDown' = TRUE
    \/ \E x \in ScenarioXs : MouseMove(x)
    \/ \E x \in ScenarioXs : MouseUp(x) /\ pointerDown' = FALSE

ScenarioSpec == ScenarioInit /\ [][ScenarioNext]_vars

(***************************************************************************)
(* FacetHistogramBar: the height of the bar and of its selection, the      *)
(* metadata and the info derived from it                                   *)
(***************************************************************************)
Heights == 0..MaxHeight

\* the metadata entries of a bar: with and without labels, binStart, binEnd
BarEntries ==
    {[label |-> "A", count |-> 1],
     [binStart |-> 0, binEnd |-> 10, count |-> 2],
     [label |-> "B", toLabel |-> "C", binStart |-> 10, count |-> 3]}

BarMetadataLists ==
    {<<e>> : e \in BarEntries}
    \cup {<<e1, e2>> : e1 \in BarEntries, e2 \in BarEntries}

\* property k of entry e, undefined when the entry does not define it
Get(e, k) == IF k \in DOMAIN e THEN e[k] ELSE undefined

\* e[k] || e[other]: a label is falsy when it is undefined or empty
Either(e, k, other) ==
    IF k \in DOMAIN e /\ e[k] # "" THEN e[k] ELSE Get(e, other)

\* the info getter; it is defined when the bar has metadata
info ==
    LET metadata == bar.metadata
        Map(f(_)) == [i \in 1..Len(metadata) |-> f(metadata[i])]
        label(e) == Either(e, "label", "binStart")
        toLabel(e) == Either(e, "toLabel", "binEnd")
        count(e) == Get(e, "count")
        meta(e) == Get(e, "metadata")
        binStart(e) == Get(e, "binStart")
        binEnd(e) == Get(e, "binEnd")
    IN  [label |-> Map(label), toLabel |-> Map(toLabel),
         count |-> Map(count), metadata |-> Map(meta)]
        @@ (IF "binStart" \in DOMAIN metadata[1]
            THEN [binStart |-> Map(binStart)] ELSE <<>>)
        @@ (IF "binEnd" \in DOMAIN metadata[1]
            THEN [binEnd |-> Map(binEnd)] ELSE <<>>)

\* variant: the foreground layer follows every write of height
SetHeightAllLayers(value) ==
    /\ op' = "bar.height="
    /\ bar' = [bar EXCEPT !.elementHeight = value,
                          !.backElementHeight = value,
                          !.height = value]
    /\ invoked' = <<>>
    /\ UNCHANGED filterVars

\* height setter
SetHeight(value) ==
    /\ op' = "bar.height="
    /\ bar' = [bar EXCEPT !.elementHeight = IF bar.selectedHeight = NoNumber
                                            THEN value ELSE @,
                          !.backElementHeight = value,
                          !.height = value]
    /\ invoked' = <<>>
    /\ UNCHANGED filterVars

\* selectedHeight setter
SetSelectedHeight(value) ==
    /\ op' = "bar.selectedHeight="
    /\ bar' = [bar EXCEPT !.elementHeight = IF value # NoNumber
                                            THEN value[1] ELSE bar.height,
                          !.selectedHeight = value]
    /\ invoked' = <<>>
    /\ UNCHANGED filterVars

\* metadata setter
SetMetadata(value) ==
    /\ op' = "bar.metadata="
    /\ bar' = [bar EXCEPT !.metadata = value]
    /\ invoked' = <<>>
    /\ UNCHANGED filterVars

BarInit ==
    /\ FacetHistogramFilter(Histogram(NumBars, BarWidth), null)
    /\ \E height \in Heights : FacetHistogramBar(height)

BarNext ==
    \/ \E value \in Heights : SetHeight(value)
    \/ \E value \in {NoNumber} \cup {Number(h) : h \in Heights} :
          SetSelectedHeight(value)
    \/ \E value \in BarMetadataLists : SetMetadata(value)

BarSpec == BarInit /\ [][BarNext]_vars

(***************************************************************************)
(* The callback slots: onMouseEnter, onMouseLeave and onClick of the bar,  *)
(* the events that invoke them, and onFilterChanged of the filter          *)
(***************************************************************************)
\* handler(this, event), when a handler is registered
Invoke(handler, event) ==
    IF handler # null THEN <<[handler |-> handler, event |-> event]>> ELSE <<>>

\* onMouseEnter setter
SetOnMouseEnter(value) ==
    /\ op' = "bar.onMouseEnter="
    /\ bar' = [bar EXCEPT !.onMouseEnterHandler =
                              IF value \in Functions THEN value ELSE null]
    /\ invoked' = <<>>
    /\ UNCHANGED filterVars

\* onMouseLeave setter
SetOnMouseLeave(value) ==
    /\ op' = "bar.onMouseLeave="
    /\ bar' = [bar EXCEPT !.onMouseLeaveHandler =
                              IF value \in Functions THEN value ELSE null]
    /\ invoked' = <<>>
    /\ UNCHANGED filterVars

\* variant: a value that is no function leaves the registered handler in place
SetOnClickKeeping(value) ==
    /\ op' = "bar.onClick="
    /\ bar' = [bar EXCEPT !.onClickHandler =
                              IF value \in Functions THEN value ELSE @]
    /\ invoked' = <<>>
    /\ UNCHANGED filterVars

\* onClick setter
SetOnClick(value) ==
    /\ op' = "bar.onClick="
    /\ bar' = [bar EXCEPT !.onClickHandler =
                              IF value \in Functions THEN value ELSE null]
    /\ invoked' = <<>>
    /\ UNCHANGED filterVars

\* _onMouseEnter: the mouseenter event of the bar
OnMouseEnter ==
    /\ op' = "bar.mouseenter"
    /\ invoked' = Invoke(bar.onMouseEnterHandler, "mouseenter")
    /\ UNCHANGED <<bar, filterVars>>

\* _onMouseLeave: the mouseleave event of the bar
OnMouseLeave ==
    /\ op' = "bar.mouseleave"
    /\ invoked' = Invoke(bar.onMouseLeaveHandler, "mouseleave")
    /\ UNCHANGED <<bar, filterVars>>

\* _onClick: the click event of the bar
OnClick ==
    /\ op' = "bar.click"
    /\ invoked' = Invoke(bar.onClickHandler, "click")
    /\ UNCHANGED <<bar, filterVars>>

SlotValues == Functions \cup NonFunctions

SlotNext ==
    \/ \E value \in SlotValues : SetOnMouseEnter(value)
    \/ \E value \in SlotValues : SetOnMouseLeave(value)
    \/ \E value \in SlotValues : SetOnClick(value)
    \/ \E value \in SlotValues : SetOnFilterChanged(value)
    \/ OnMouseEnter
    \/ OnMouseLeave
    \/ OnClick
    \/ \E f \in BOOLEAN : CallSetFilterBarRange(maxBarRange, f)

SlotSpec == Init /\ [][SlotNext]_vars

(***************************************************************************)
(* The range label: the filter over histograms whose bars carry one or two *)
(* metadata entries, with and without a toLabel, with and without a        *)
(* display formatter.                                                      *)
(***************************************************************************)
MetadataEntries ==
    {[label |-> "A", binStart |-> 0, binEnd |-> 10, count |-> 1],
     [label |-> "B", toLabel |-> "C", binStart |-> 10, binEnd |-> 20, count |-> 2]}

\* the metadata lists of a bar: one entry, or two merged bins
MetadataLists ==
    {<<e>> : e \in MetadataEntries}
    \cup {<<e1, e2>> : e1 \in MetadataEntries, e2 \in MetadataEntries}

LabelInit ==
    /\ \E bars \in [1..NumBars -> [metadata : MetadataLists]],
          fn \in {null, "displayFn"} :
            FacetHistogramFilter(
                [numBars |-> NumBars, barWidth |-> BarWidth, bars |-> bars], fn)
    /\ FacetHistogramBar(0)

LabelNext ==
    \E b \in ValidBarRanges, f \in BOOLEAN : CallSetFilterBarRange(b, f)

LabelSpec == LabelInit /\ [][LabelNext]_vars

(***************************************************************************)
(* Properties                                                              *)
(***************************************************************************)
Committed == calls # <<>>

Notification(b, fromUserInput) ==
    [handler |-> onFilterChanged, barRange |-> b, fromUserInput |-> fromUserInput]

InDomain(b) == 0 <= b.from /\ b.from <= b.to /\ b.to <= barsLength - 1

Consistent == pixelRange = barRangeToPixelRange(barRange)

\* C1: with a handler registered, every entry point that calls
\* setFilterBarRange or setFilterPixelRange invokes the handler exactly once,
\* with the committed bar range and the flag of the outermost call; the flag
\* is FALSE for a write through an accessor and TRUE for a drag or page commit.
C1_NotifiedOncePerCall ==
    (onFilterChanged # null /\ Committed) =>
        /\ notified = <<Notification(barRange, calls[1].fromUserInput)>>
        /\ (op \in {"barRange=", "pixelRange="} => ~notified[1].fromUserInput)
        /\ (op \in {"endDragging", "pageLeft.click", "pageRight.click"}
                => notified[1].fromUserInput)

C1_Witness ==
    /\ onFilterChanged # null
    /\ op = "pixelRange="
    /\ Len(notified) = 1
    /\ ~notified[1].fromUserInput

\* C2: in a drag gesture the pointer-down and the pointer-moves notify nobody
\* and commit nothing; the pointer-up or pointer-leave that ends the drag
\* commits the bar range of the final pointer position and notifies the
\* registered handler exactly once, with fromUserInput = TRUE.
C2_DragNotifiesOnce ==
    [][\A x \in ClientXs :
        /\ (LeftHandleMouseDown(x) \/ RightHandleMouseDown(x) \/ MouseMove(x))
              => (notified' = <<>> /\ calls' = <<>>)
        /\ ((draggingLeft \/ draggingRight) /\ (MouseUp(x) \/ MouseLeave(x)))
              => /\ barRange' = pixelRangeToBarRange(
                                    DragRange(draggingLeft, draggingRight, x))
                 /\ calls' = <<Call("setFilterPixelRange", TRUE),
                               Call("setFilterBarRange", TRUE)>>
                 /\ notified' = IF onFilterChanged # null
                                THEN <<Notification(barRange', TRUE)>>
                                ELSE <<>>
      ]_vars

C2_Witness ==
    /\ op = "endDragging"
    /\ Committed
    /\ onFilterChanged # null
    /\ Len(notified) = 1
    /\ barRange # Range(0, 0)

\* C3: a pointer-up or pointer-leave that follows a pointer-down on a handle
\* with no pointer-move in between (the handle is armed and not dragging)
\* leaves that handle idle: neither armed nor dragging.
C3_ClickReturnsToIdle ==
    [][\A x \in ClientXs :
        (MouseUp(x) \/ MouseLeave(x)) =>
            /\ (canDragLeft /\ ~draggingLeft) => (~canDragLeft' /\ ~draggingLeft')
            /\ (canDragRight /\ ~draggingRight) => (~canDragRight' /\ ~draggingRight')
      ]_vars

\* C4: a pointer-up on an armed handle that has not been dragged commits the
\* current range unchanged and refreshes the UI with the committed ranges.
C4_ClickRefreshesUI ==
    [][\A x \in ClientXs :
        (MouseUp(x) /\ (canDragLeft \/ canDragRight)
                    /\ ~draggingLeft /\ ~draggingRight) =>
            /\ UNCHANGED committedVars
            /\ uiUpdates' = <<UICall(barRange, pixelRange)>>
      ]_vars

\* pointer positions that give every delta from -(totalWidth + 2) to
\* totalWidth + 2, whatever the anchor
WidePositions == (0 - (totalWidth + 2))..(2 * totalWidth + 3)

\* C5: the bar range committed by the end of a drag satisfies
\* 0 <= from <= to <= lastBarIndex, and so does the bar range that the end of
\* a drag of the left handle, the right handle or both would commit from the
\* committed pixel range at any pointer position.
C5_DragCommitsInDomain ==
    /\ (op = "endDragging" /\ Committed) => InDomain(barRange)
    /\ \A x \in WidePositions :
          /\ InDomain(pixelRangeToBarRange(DragRange(TRUE, FALSE, x)))
          /\ InDomain(pixelRangeToBarRange(DragRange(FALSE, TRUE, x)))
          /\ InDomain(pixelRangeToBarRange(DragRange(TRUE, TRUE, x)))

C5_Witness ==
    /\ op = "endDragging"
    /\ Committed
    /\ barRange = Range(barsLength - 1, barsLength - 1)
    /\ draggingLeftX = 0

MinWidthInDomain(p) ==
    /\ 0 <= p.from /\ p.from <= totalWidth
    /\ 0 <= p.to /\ p.to <= totalWidth
    /\ p.to - p.from >= barWidth

\* C6: the tentative pixel range a pointer-move or a pointer-up computes from
\* the committed pixel range, for the left handle, the right handle or both
\* at any pointer position, lies in [0, totalWidth] and is at least barWidth
\* wide; so does every tentative range a pointer-move has passed to updateUI.
C6_TentativeRangeMinWidth ==
    /\ \A x \in WidePositions :
          /\ MinWidthInDomain(DragRange(TRUE, FALSE, x))
          /\ MinWidthInDomain(DragRange(FALSE, TRUE, x))
          /\ MinWidthInDomain(DragRange(TRUE, TRUE, x))
    /\ (op = "mousemove" /\ uiUpdates # <<>>)
          => MinWidthInDomain(uiUpdates[1].pixelRange)

C6_Witness ==
    /\ op = "mousemove"
    /\ draggingLeft /\ ~draggingRight
    /\ uiUpdates # <<>>
    /\ pixelRange = Range(0, totalWidth)
    /\ uiUpdates[1].pixelRange = Range(totalWidth - barWidth, totalWidth)

\* C7: page-right off the right boundary commits {from + k, to + k} with
\* k = min(to - from + 1, maxTo - to); page-left off the left boundary commits
\* {from - k, to - k} with k = min(to - from + 1, from - maxFrom); the width
\* of the window is kept and the result lies inside maxBarRange.
C7_PageShiftsByWidth ==
    [][/\ (PageRightClick /\ barRange.to < maxBarRange.to) =>
            LET k == Min(barRange.to - barRange.from + 1,
                         maxBarRange.to - barRange.to)
            IN  /\ barRange' = Range(barRange.from + k, barRange.to + k)
                /\ barRange'.to - barRange'.from = barRange.to - barRange.from
                /\ maxBarRange.from <= barRange'.from
                /\ barRange'.to <= maxBarRange.to
       /\ (PageLeftClick /\ barRange.from > maxBarRange.from) =>
            LET k == Min(barRange.to - barRange.from + 1,
                         barRange.from - maxBarRange.from)
            IN  /\ barRange' = Range(barRange.from - k, barRange.to - k)
                /\ barRange'.to - barRange'.from = barRange.to - barRange.from
                /\ maxBarRange.from <= barRange'.from
                /\ barRange'.to <= maxBarRange.to
      ]_vars

\* a page-right whose offset was cut short: a full page back would start
\* left of the domain
C7_Witness ==
    /\ op = "pageRight.click"
    /\ Committed
    /\ barRange.to = maxBarRange.to
    /\ barRange.from < barRange.to
    /\ barRange.from - (barRange.to - barRange.from + 1) < maxBarRange.from

\* C8: page-left with barRange.from = maxBarRange.from and page-right with
\* barRange.to = maxBarRange.to change neither barRange nor pixelRange and do
\* not invoke onFilterChanged.
C8_PageAtBoundaryIsNoOp ==
    [][/\ (PageLeftClick /\ barRange.from = maxBarRange.from)
            => (UNCHANGED committedVars /\ notified' = <<>>)
       /\ (PageRightClick /\ barRange.to = maxBarRange.to)
            => (UNCHANGED committedVars /\ notified' = <<>>)
      ]_vars

C8_Witness ==
    /\ op = "pageLeft.click"
    /\ barRange.from = maxBarRange.from
    /\ barRange.to < maxBarRange.to
    /\ ~Committed
    /\ onFilterChanged # null
    /\ ui.drawn

\* C9: a pointer-move, whether or not a handle is armed or dragging, leaves
\* the committed barRange and pixelRange as they were, and so does a call of
\* updateUI, whatever ranges it is given.
C9_MoveKeepsCommitted ==
    [][/\ \A x \in ClientXs : MouseMove(x) => UNCHANGED committedVars
       /\ \A b \in UIBarRanges, p \in UIPixelRanges :
             CallUpdateUI(b, p) => UNCHANGED committedVars
      ]_vars

\* a move has shown a tentative range that differs from the committed one
C9_Witness ==
    /\ op = "mousemove"
    /\ draggingLeft
    /\ uiUpdates # <<>>
    /\ uiUpdates[1].barRange # barRange
    /\ uiUpdates[1].pixelRange # pixelRange
    /\ Consistent

\* C10 as stated: in every reachable state pixelRange equals
\* barRangeToPixelRange(barRange).
C10_AlwaysConsistent == Consistent

\* C10, amended: in every reachable state pixelRange equals
\* barRangeToPixelRange(barRange), unless no commit has happened yet and both
\* ranges are still the {from: 0, to: 0} the constructor stored.
C10_ConsistentOnceCommitted ==
    \/ Consistent
    \/ (pixelRange = Range(0, 0) /\ barRange = Range(0, 0))

\* a caller's pixel range has been committed through the accessor
C10_Witness ==
    /\ op = "pixelRange="
    /\ Committed
    /\ Consistent
    /\ barRange.from > 0

\* C11: under a single pointer no reachable state has the left and the right
\* handle dragging at the same time.
C11_AtMostOneDragging == ~(draggingLeft /\ draggingRight)

\* C12: during an active drag a pointer-leave at client position x is the
\* same step as a pointer-up at x: it commits the bar range of the range in
\* progress, notifies as the pointer-up does and leaves the dragged handle
\* neither dragging nor armed. A step that ends a drag in another way commits
\* nothing and redraws nothing: no step redraws the range committed before.
C12_LeaveCommitsLikeUp ==
    [][(draggingLeft \/ draggingRight) =>
          /\ \A x \in ClientXs :
                /\ MouseLeave(x) <=> MouseUp(x)
                /\ MouseLeave(x) =>
                      /\ barRange' = pixelRangeToBarRange(
                                         DragRange(draggingLeft, draggingRight, x))
                      /\ pixelRange' = barRangeToPixelRange(barRange')
                      /\ uiUpdates' = <<UICall(barRange', pixelRange')>>
                      /\ notified' = IF onFilterChanged # null
                                     THEN <<Notification(barRange', TRUE)>>
                                     ELSE <<>>
                      /\ ~draggingLeft' /\ ~draggingRight'
                      /\ draggingLeft => ~canDragLeft'
                      /\ draggingRight => ~canDragRight'
          /\ (~draggingLeft' /\ ~draggingRight') =>
                \/ /\ op' = "endDragging"
                   /\ calls' = <<Call("setFilterPixelRange", TRUE),
                                 Call("setFilterBarRange", TRUE)>>
                \/ /\ op' \in {"leftHandle.mousedown", "rightHandle.mousedown"}
                   /\ uiUpdates' = <<>>
                   /\ UNCHANGED <<committedVars, ui>>
      ]_vars

\* a drag of the left handle has ended: its range is committed, drawn and
\* notified, and the handle is idle
C12_Witness ==
    /\ op = "endDragging"
    /\ calls = <<Call("setFilterPixelRange", TRUE), Call("setFilterBarRange", TRUE)>>
    /\ ~draggingLeft /\ ~canDragLeft
    /\ draggingLeftX = 0
    /\ barRange.from > 0
    /\ ui.highlightRange = barRange
    /\ notified = <<Notification(barRange, TRUE)>>

\* C13: right after a call setFilterBarRange(b, false), which leaves b as the
\* committed bar range, the call setFilterBarRange(barRange, false) leaves
\* pixelRange and barRange as they are and passes highlightRange the same
\* range as the first call did.
C13_SetBarRangeTwice ==
    [][(/\ op = "setFilterBarRange"
        /\ calls = <<Call("setFilterBarRange", FALSE)>>
        /\ CallSetFilterBarRange(barRange, FALSE)) =>
            /\ pixelRange' = pixelRange
            /\ barRange' = barRange
            /\ ui'.highlightRange = ui.highlightRange
            /\ uiUpdates'[1].barRange = uiUpdates[1].barRange
      ]_vars

\* setFilterBarRange(b, false) has run with a range other than the
\* constructor's
C13_Witness ==
    /\ op = "setFilterBarRange"
    /\ calls = <<Call("setFilterBarRange", FALSE)>>
    /\ barRange = Range(1, barsLength - 1)
    /\ pixelRange = barRangeToPixelRange(barRange)
    /\ ui.highlightRange = barRange
    /\ uiUpdates = <<UICall(barRange, pixelRange)>>

\* the left handle alone is being dragged from the full selection of the
\* ten-bar histogram, and position x is more than totalWidth - barWidth to
\* the right of where the drag began
OvershootingLeftDrag(x) ==
    /\ barsLength = 10 /\ barWidth = 20 /\ totalWidth = 200
    /\ barRange = Range(0, 9)
    /\ pixelRange = Range(0, 200)
    /\ draggingLeft /\ ~draggingRight
    /\ x - draggingLeftX > totalWidth - barWidth

\* C14 as stated: with 10 bars, barWidth = 20, totalWidth = 200 and the
\* committed selection {from: 0, to: 9}, releasing the left handle after a
\* drag to the right by more than totalWidth - barWidth commits
\* barRange = {from: 8, to: 9}.
C14_OvershootCommitsLastTwoBars ==
    [][\A x \in ScenarioXs :
        (OvershootingLeftDrag(x) /\ MouseUp(x)) => barRange' = Range(8, 9)
      ]_vars

\* C14, amended: with 10 bars, barWidth = 20, totalWidth = 200 and the
\* committed selection {from: 0, to: 9}, releasing the left handle after a
\* drag to the right by more than totalWidth - barWidth commits
\* barRange = {from: 9, to: 9}, the last bar alone.
C14_OvershootCommitsLastBar ==
    [][\A x \in ScenarioXs :
        (OvershootingLeftDrag(x) /\ MouseUp(x)) =>
            /\ barRange' = Range(9, 9)
            /\ pixelRange' = Range(totalWidth - barWidth, totalWidth)
      ]_vars

\* the drag that began at 0 has been released and the last bar is committed
C14_Witness ==
    /\ totalWidth = 200
    /\ op = "endDragging"
    /\ calls = <<Call("setFilterPixelRange", TRUE), Call("setFilterBarRange", TRUE)>>
    /\ draggingLeftX = 0
    /\ ~draggingLeft
    /\ barRange = Range(9, 9)

\* the label the claim describes for bar range b
LabelWithFallback(b) ==
    LET leftBarMetadata == histogram.bars[b.from + 1].metadata
        rightBarMetadata == histogram.bars[b.to + 1].metadata
        first == leftBarMetadata[1]
        last == rightBarMetadata[Len(rightBarMetadata)]
        fromText == Str(first, "label")
        toText == IF "toLabel" \in DOMAIN last
                  THEN Str(last, "toLabel")
                  ELSE Str(last, "binEnd")
    IN  fromText \o " - " \o toText

\* C15: with no display formatter configured, the range label updateUI shows
\* for the range {from, to} is fromText + ' - ' + toText, where fromText is
\* the label of the first metadata entry of bar from, and toText the toLabel
\* of the last metadata entry of bar to, or its binEnd when it has no toLabel.
C15_LabelFallsBackToBinEnd ==
    (ui.drawn /\ displayFn = null) => ui.label = LabelWithFallback(ui.highlightRange)

\* C16: after any writes of height and selectedHeight the foreground layer
\* is as high as selectedHeight when that is not null and as high as height
\* when it is null, and the back layer is as high as height; so a write of
\* height while selectedHeight is not null leaves the foreground layer alone.
C16_LayersFollowHeights ==
    /\ bar.elementHeight = IF bar.selectedHeight # NoNumber
                           THEN bar.selectedHeight[1]
                           ELSE bar.height
    /\ bar.backElementHeight = bar.height

\* height has been written while a selection of another height was set
C16_Witness ==
    /\ op = "bar.height="
    /\ bar.selectedHeight # NoNumber
    /\ bar.height # bar.selectedHeight[1]
    /\ bar.elementHeight = bar.selectedHeight[1]
    /\ bar.backElementHeight = bar.height

\* C17: the info of a bar has the binStart sequence only if every entry of
\* its metadata defines binStart, and the binEnd sequence only if every
\* entry defines binEnd.
C17_BinSequencesNeedEveryEntry ==
    bar.metadata # <<>> =>
        /\ "binStart" \in DOMAIN info =>
              \A i \in 1..Len(bar.metadata) : "binStart" \in DOMAIN bar.metadata[i]
        /\ "binEnd" \in DOMAIN info =>
              \A i \in 1..Len(bar.metadata) : "binEnd" \in DOMAIN bar.metadata[i]

\* what a slot holds after value has been assigned to it
Held(value) == IF value \in Functions THEN value ELSE null

\* C18: each callback slot (onMouseEnter, onMouseLeave, onClick of the bar,
\* onFilterChanged of the filter) holds, after an assignment, the assigned
\* value if it is callable and no handler otherwise, whatever it held
\* before, and the assignment invokes nothing; an event of the bar invokes
\* the handler its slot holds, once, and nothing when the slot is empty, and
\* so does a commit of the filter.
C18_SingleSlot ==
    [][/\ \A value \in SlotValues :
            /\ SetOnMouseEnter(value) =>
                  bar' = [bar EXCEPT !.onMouseEnterHandler = Held(value)]
            /\ SetOnMouseLeave(value) =>
                  bar' = [bar EXCEPT !.onMouseLeaveHandler = Held(value)]
            /\ SetOnClick(value) =>
                  bar' = [bar EXCEPT !.onClickHandler = Held(value)]
            /\ SetOnFilterChanged(value) =>
                  (onFilterChanged' = Held(value) /\ notified' = <<>>)
            /\ (SetOnMouseEnter(value) \/ SetOnMouseLeave(value)
                  \/ SetOnClick(value)) => invoked' = <<>>
       /\ OnMouseEnter =>
            invoked' = IF bar.onMouseEnterHandler \in Functions
                       THEN <<[handler |-> bar.onMouseEnterHandler,
                               event |-> "mouseenter"]>>
                       ELSE <<>>
       /\ OnMouseLeave =>
            invoked' = IF bar.onMouseLeaveHandler \in Functions
                       THEN <<[handler |-> bar.onMouseLeaveHandler,
                               event |-> "mouseleave"]>>
                       ELSE <<>>
       /\ OnClick =>
            invoked' = IF bar.onClickHandler \in Functions
                       THEN <<[handler |-> bar.onClickHandler, event |-> "click"]>>
                       ELSE <<>>
       /\ (OnMouseEnter \/ OnMouseLeave \/ OnClick) => UNCHANGED bar
       /\ \A f \in BOOLEAN :
            CallSetFilterBarRange(maxBarRange, f) =>
                /\ notified' = IF onFilterChanged \in Functions
                               THEN <<Notification(maxBarRange, f)>>
                               ELSE <<>>
                /\ UNCHANGED onFilterChanged
      ]_vars

\* a click has invoked the one handler of its slot while the other slots
\* hold another handler and none
C18_Witness ==
    /\ op = "bar.click"
    /\ bar.onClickHandler = "fn2"
    /\ bar.onMouseEnterHandler = "fn1"
    /\ bar.onMouseLeaveHandler = null
    /\ onFilterChanged = "fn1"
    /\ invoked = <<[handler |-> "fn2", event |-> "click"]>>

\* the clamp-and-push policy of a drag of the left handle by d on [f, t]
LeftPolicy(f, t, d) ==
    LET f1 == Max(0, f + d)
    IN  IF t - f1 >= barWidth THEN Range(f1, t)
        ELSE IF f1 + barWidth <= totalWidth THEN Range(f1, f1 + barWidth)
        ELSE Range(totalWidth - barWidth, totalWidth)

\* the clamp-and-push policy of a drag of the right handle by d on [f, t]
RightPolicy(f, t, d) ==
    LET t1 == Min(totalWidth, t + d)
    IN  IF t1 - f >= barWidth THEN Range(f, t1)
        ELSE IF t1 - barWidth >= 0 THEN Range(t1 - barWidth, t1)
        ELSE Range(0, barWidth)

\* C19: a drag by delta d on the pixel range [f, t] follows the
\* clamp-and-push policy. Left handle: f' = max(0, f + d); t stays if
\* t - f' >= barWidth, else t' = f' + barWidth if that does not exceed
\* totalWidth, else the range is [totalWidth - barWidth, totalWidth]. Right
\* handle: t' = min(totalWidth, t + d); f stays if t' - f >= barWidth, else
\* f' = t' - barWidth if that is not negative, else the range is
\* [0, barWidth]. It holds of the committed pixel range at any pointer
\* position, of the right handle applied to the result of the left one, and
\* of the range a pointer-move has drawn.
C19_ClampAndPush ==
    /\ \A x \in WidePositions :
          LET dl == x - draggingLeftX
              dr == x - draggingRightX
          IN  /\ calculateFrom(pixelRange, dl, barWidth, totalWidth)
                    = LeftPolicy(pixelRange.from, pixelRange.to, dl)
              /\ calculateTo(pixelRange, dr, barWidth, totalWidth)
                    = RightPolicy(pixelRange.from, pixelRange.to, dr)
              /\ \A y \in ClientXs :
                    LET r1 == calculateFrom(pixelRange, y - draggingLeftX,
                                            barWidth, totalWidth)
                    IN  calculateTo(r1, dr, barWidth, totalWidth)
                          = RightPolicy(r1.from, r1.to, dr)
    /\ (op = "mousemove" /\ uiUpdates # <<>> /\ canDragLeft /\ ~canDragRight) =>
          \E x \in ClientXs :
              uiUpdates[1].pixelRange
                = LeftPolicy(pixelRange.from, pixelRange.to, x - draggingLeftX)
    /\ (op = "mousemove" /\ uiUpdates # <<>> /\ canDragRight /\ ~canDragLeft) =>
          \E x \in ClientXs :
              uiUpdates[1].pixelRange
                = RightPolicy(pixelRange.from, pixelRange.to, x - draggingRightX)

\* a move of the right handle far to the left has drawn the window [0, barWidth]
\* of a committed range that begins further right
C19_Witness ==
    /\ op = "mousemove"
    /\ canDragRight /\ ~canDragLeft
    /\ draggingRight
    /\ draggingRightX = totalWidth + 1
    /\ pixelRange.from >= barWidth
    /\ uiUpdates # <<>>
    /\ uiUpdates[1].pixelRange = Range(0, barWidth)

\* a commit has happened: every commit leaves pixelRange.to >= barWidth
EverCommitted == pixelRange # Range(0, 0)

\* C20: once a commit has happened, in every state where neither handle is
\* dragging the UI shows the committed selection: highlightRange was last
\* passed the committed barRange, the handle region is at the committed
\* pixelRange, page-left is disabled exactly when barRange.from is
\* maxBarRange.from, page-right exactly when barRange.to is maxBarRange.to,
\* and the range label is hidden exactly when barRange is maxBarRange.
C20_IdleShowsCommitted ==
    (EverCommitted /\ ~draggingLeft /\ ~draggingRight) =>
        /\ ui.highlightRange = barRange
        /\ ui.left = pixelRange.from
        /\ ui.width = pixelRange.to - pixelRange.from
        /\ ui.pageLeftDisabled = (barRange.from = maxBarRange.from)
        /\ ui.pageRightDisabled = (barRange.to = maxBarRange.to)
        /\ ui.labelHidden = (barRange = maxBarRange)

\* C21: in every state reached by pointer-downs, pointer-moves, pointer-ups,
\* pointer-leaves, page clicks and set operations, a handle that is dragging
\* is armed: draggingLeft implies canDragLeft and draggingRight implies
\* canDragRight.
C21_DraggingImpliesArmed ==
    /\ draggingLeft => canDragLeft
    /\ draggingRight => canDragRight

\* the right handle alone is dragging, and armed, after its drag has been
\* interrupted by a page click; the left handle has been released from a drag
C21_Witness ==
    /\ op \in {"pageLeft.click", "pageRight.click"}
    /\ Committed
    /\ draggingRight /\ canDragRight
    /\ ~draggingLeft /\ ~canDragLeft
    /\ draggingLeftX # 0
====
